---- MODULE Spec2Model ----
(***************************************************************************)
(* Model of listener.py: a UDP echo listener bound to 127.0.0.1:3400.      *)
(*                                                                         *)
(* The script is one thread of control: socket(), bind(), and then an      *)
(* endless loop recvfrom / print / print / sleep / sendto (/ print).  Each *)
(* statement is one action; pc names the statement about to run.  The      *)
(* senders and the operating system's socket are the environment.          *)
(*                                                                         *)
(* A bytes object is kept run-length encoded: a sequence of runs           *)
(* [b |-> byte, n |-> count], every n >= 1 and adjacent runs of different  *)
(* bytes, so that two byte strings are equal exactly when their encodings  *)
(* are.  This keeps the receive buffer size at its real value.             *)
(***************************************************************************)
EXTENDS Integers, Sequences, FiniteSets, TLC

VARIABLES
    pc,        \* the statement the script is about to execute
    exc,       \* the uncaught exception that ended the process ("" if none)
    sock,      \* "none", "created" (socket() returned) or "bound"
    portInUse, \* another process already holds (UDP_IP, UDP_PORT)
    rcvbuf,    \* the socket's OS receive queue: datagrams not yet received
    open,      \* sender addresses whose socket is still open
    data,      \* loop variable data
    addr,      \* loop variable addr
    e,         \* the exception bound by "except Exception as e"
    clock,     \* seconds the process has spent in sleep()
    trace,     \* history: what the process did, in order
    arrived,   \* history: datagrams the OS queued for the socket, in order,
               \* each with the clock at its arrival
    iter,      \* history: completed loop iterations
    idata,     \* bytes_dump: the argument
    res,       \* bytes_dump: the returned list
    dpc        \* bytes_dump: "call" or "returned"

vars == <<pc, exc, sock, portInUse, rcvbuf, open, data, addr, e, clock,
          trace, arrived, iter, idata, res, dpc>>

loopVars == <<pc, exc, sock, portInUse, rcvbuf, open, data, addr, e, clock,
              trace, arrived, iter>>

dumpVars == <<idata, res, dpc>>

----------------------------------------------------------------------------
(* Program constants *)

UDP_IP == "127.0.0.1"

UDP_PORT == 3400

\* sock.recvfrom(16384)
BUFSIZE == 16384

\* sleep(1)
SLEEP_SECS == 1

----------------------------------------------------------------------------
(* Bounds of the model *)

\* datagrams the senders transmit in one run
MaxArrivals == 2

\* length (in runs) of the byte strings bytes_dump is applied to on its own
MaxDumpRuns == 2

----------------------------------------------------------------------------
(* Byte strings *)

Byte == 0..255

Run(b, n) == [b |-> b, n |-> n]

RECURSIVE BLen(_)
\* len(s)
BLen(s) == IF s = <<>> THEN 0 ELSE s[1].n + BLen(Tail(s))

RECURSIVE Take(_, _)
\* s[:k], the first k elements
Take(s, k) ==
    IF s = <<>> \/ k <= 0 THEN <<>>
    ELSE IF s[1].n <= k THEN <<s[1]>> \o Take(Tail(s), k - s[1].n)
    ELSE <<Run(s[1].b, k)>>

RECURSIVE At(_, _)
\* s[i - 1]: the i-th element, 1 <= i <= BLen(s)
At(s, i) == IF i <= s[1].n THEN s[1].b ELSE At(Tail(s), i - s[1].n)

----------------------------------------------------------------------------
(* bytes_dump *)

HexDigits ==
    <<"0", "1", "2", "3", "4", "5", "6", "7",
      "8", "9", "A", "B", "C", "D", "E", "F">>

RECURSIVE HexUpper(_)
\* presentation type "X": the number in base 16 with upper-case digits
HexUpper(n) ==
    IF n < 16 THEN HexDigits[n + 1]
    ELSE HexUpper(n \div 16) \o HexDigits[(n % 16) + 1]

RECURSIVE ZeroPad(_, _)
\* fill "0" and a minimum width: pad on the left, never cut
ZeroPad(s, width) == IF Len(s) >= width THEN s ELSE ZeroPad("0" \o s, width)

\* Variant of Format02X: "{:X}", no minimum width
Format02X_nopad(byte) == HexUpper(byte)

\* "{:02X}".format(int(byte))
Format02X(byte) == ZeroPad(HexUpper(byte), 2)

RECURSIVE bytes_dump(_)
\* res = []; for byte in idata: res.append(...); return res
\* A run of n equal bytes appends n equal tokens: a run of the token.
bytes_dump(s) ==
    IF s = <<>> THEN <<>>
    ELSE <<Run(Format02X(s[1].b), s[1].n)>> \o bytes_dump(Tail(s))

----------------------------------------------------------------------------
(* The environment: senders, what they send, what the transport reports *)

Senders == {<<"127.0.0.1", 50001>>, <<"127.0.0.1", 50002>>}

\* data and addr before the first assignment
Unset == "unset"

\* datagrams of 0, of 16384 and of 16385 bytes
Payloads ==
    { <<>>,
      <<Run(0, 1), Run(10, 1), Run(255, 16382)>>,
      <<Run(1, 16383), Run(2, 2)>> }

EADDRINUSE == "[Errno 98] Address already in use"
EMFILE == "[Errno 24] Too many open files"
ECONNRESET == "[Errno 104] Connection reset by peer"
ECONNREFUSED == "[Errno 111] Connection refused"

\* what socket.socket() and sock.bind() can raise
StartupErrors == {EMFILE, EADDRINUSE}

\* what sock.recvfrom() can raise
RecvErrors == {ECONNRESET}

\* what sock.sendto(d, a) can raise: the transport reports a destination
\* that is no longer there as a failure
SendErrors(d, a) == IF a \in open THEN {} ELSE {ECONNREFUSED}

\* whether sock.sendto(d, a) goes through
SendPossible(d, a) == a \in open

\* Variant of recvfrom: the newest datagram is taken, not the oldest
recvfrom_lifo(q, bufsize) ==
    [dgram |-> q[Len(q)].data, data |-> Take(q[Len(q)].data, bufsize),
     addr |-> q[Len(q)].addr, rest |-> SubSeq(q, 1, Len(q) - 1)]

\* Variant of recvfrom: the buffer size is not applied
recvfrom_whole(q, bufsize) ==
    [dgram |-> Head(q).data, data |-> Head(q).data,
     addr |-> Head(q).addr, rest |-> Tail(q)]

\* sock.recvfrom(bufsize) on a non-empty queue q: the first datagram is
\* taken off the queue whole, at most bufsize bytes of it are returned and
\* the rest of that datagram is discarded
recvfrom(q, bufsize) ==
    [dgram |-> Head(q).data, data |-> Take(Head(q).data, bufsize),
     addr |-> Head(q).addr, rest |-> Tail(q)]

----------------------------------------------------------------------------
(* Initial state: the script is about to create its socket *)

InitLoop ==
    /\ pc = "socket"
    /\ exc = ""
    /\ sock = "none"
    /\ portInUse \in BOOLEAN
    /\ rcvbuf = <<>>
    /\ open = Senders
    /\ data = Unset
    /\ addr = Unset
    /\ e = Unset
    /\ clock = 0
    /\ trace = <<>>
    /\ arrived = <<>>
    /\ iter = 0

Init ==
    /\ InitLoop
    /\ idata = <<>>
    /\ res = <<>>
    /\ dpc = "returned"

----------------------------------------------------------------------------
(* Startup: lines 7-9 *)

\* sock = socket.socket(AF_INET, SOCK_DGRAM)
Socket ==
    /\ pc = "socket"
    /\ sock' = "created"
    /\ pc' = "bind"
    /\ UNCHANGED <<dumpVars, exc, portInUse, rcvbuf, open, data, addr, e, clock, trace,
                   arrived, iter>>

\* socket.socket() raises: nothing catches it
SocketRaise ==
    /\ pc = "socket"
    /\ exc' = EMFILE
    /\ pc' = "exit"
    /\ UNCHANGED <<dumpVars, sock, portInUse, rcvbuf, open, data, addr, e, clock, trace,
                   arrived, iter>>

\* sock.bind((UDP_IP, UDP_PORT)), the address free
Bind ==
    /\ pc = "bind"
    /\ ~portInUse
    /\ sock' = "bound"
    /\ pc' = "recvfrom"
    /\ UNCHANGED <<dumpVars, exc, portInUse, rcvbuf, open, data, addr, e, clock, trace,
                   arrived, iter>>

\* Variant of BindRaise: the bind error is swallowed and the loop entered
BindRaise_swallowed ==
    /\ pc = "bind"
    /\ portInUse
    /\ pc' = "recvfrom"
    /\ UNCHANGED <<dumpVars, exc, sock, portInUse, rcvbuf, open, data, addr, e, clock,
                   trace, arrived, iter>>

\* sock.bind((UDP_IP, UDP_PORT)), the address held: raises, nothing catches it
BindRaise ==
    /\ pc = "bind"
    /\ portInUse
    /\ exc' = EADDRINUSE
    /\ pc' = "exit"
    /\ UNCHANGED <<dumpVars, sock, portInUse, rcvbuf, open, data, addr, e, clock, trace,
                   arrived, iter>>

----------------------------------------------------------------------------
(* The main loop: lines 19-27 *)

\* Variant of Recvfrom: the buffer size is the 1024 of the line's comment
Recvfrom_1024 ==
    /\ pc = "recvfrom"
    /\ rcvbuf # <<>>
    /\ LET r == recvfrom(rcvbuf, 1024)
       IN /\ data' = r.data
          /\ addr' = r.addr
          /\ rcvbuf' = r.rest
          /\ trace' = Append(trace, [ev |-> "recvfrom", dgram |-> r.dgram,
                                     data |-> r.data, addr |-> r.addr, t |-> clock])
    /\ pc' = "print_received"
    /\ UNCHANGED <<dumpVars, exc, sock, portInUse, open, e, clock, arrived, iter>>

\* Variant of Recvfrom: empty data is taken for the end of input ("if not
\* data: break") and the script runs off its end
Recvfrom_eof ==
    /\ pc = "recvfrom"
    /\ rcvbuf # <<>>
    /\ LET r == recvfrom(rcvbuf, BUFSIZE)
       IN /\ data' = r.data
          /\ addr' = r.addr
          /\ rcvbuf' = r.rest
          /\ trace' = Append(trace, [ev |-> "recvfrom", dgram |-> r.dgram,
                                     data |-> r.data, addr |-> r.addr, t |-> clock])
          /\ pc' = IF r.data = <<>> THEN "exit" ELSE "print_received"
    /\ UNCHANGED <<dumpVars, exc, sock, portInUse, open, e, clock, arrived, iter>>

\* data, addr = sock.recvfrom(16384): blocks while the queue is empty
Recvfrom ==
    /\ pc = "recvfrom"
    /\ rcvbuf # <<>>
    /\ LET r == recvfrom(rcvbuf, BUFSIZE)
       IN /\ data' = r.data
          /\ addr' = r.addr
          /\ rcvbuf' = r.rest
          /\ trace' = Append(trace, [ev |-> "recvfrom", dgram |-> r.dgram,
                                     data |-> r.data, addr |-> r.addr, t |-> clock])
    /\ pc' = "print_received"
    /\ UNCHANGED <<dumpVars, exc, sock, portInUse, open, e, clock, arrived, iter>>

\* Variant of RecvfromRaise: the receive error is caught and the loop goes on
RecvfromRaise_caught ==
    /\ pc = "recvfrom"
    /\ \E err \in RecvErrors :
          trace' = Append(trace, [ev |-> "raise", exc |-> err, t |-> clock])
    /\ pc' = "recvfrom"
    /\ UNCHANGED <<dumpVars, exc, sock, portInUse, rcvbuf, open, data, addr, e, clock,
                   arrived, iter>>

\* sock.recvfrom(16384) raises: the call is outside the try, nothing catches it
RecvfromRaise ==
    /\ pc = "recvfrom"
    /\ \E err \in RecvErrors :
          /\ exc' = err
          /\ trace' = Append(trace, [ev |-> "raise", exc |-> err, t |-> clock])
    /\ pc' = "exit"
    /\ UNCHANGED <<dumpVars, sock, portInUse, rcvbuf, open, data, addr, e, clock,
                   arrived, iter>>

\* print(f"received message: {data}\n from {addr} {len(data)} bytes long\nhex {bytes_dump(data)}")
PrintReceived ==
    /\ pc = "print_received"
    /\ trace' = Append(trace, [ev |-> "print", line |-> "received message",
                               raw |-> data, from |-> addr, len |-> BLen(data),
                               hex |-> bytes_dump(data), t |-> clock])
    /\ pc' = "print_echoing"
    /\ UNCHANGED <<dumpVars, exc, sock, portInUse, rcvbuf, open, data, addr, e, clock,
                   arrived, iter>>

\* print(f"echoing... to {addr}")
PrintEchoing ==
    /\ pc = "print_echoing"
    /\ trace' = Append(trace, [ev |-> "print", line |-> "echoing", to |-> addr,
                               t |-> clock])
    /\ pc' = "sleep"
    /\ UNCHANGED <<dumpVars, exc, sock, portInUse, rcvbuf, open, data, addr, e, clock,
                   arrived, iter>>

\* sleep(1)
Sleep ==
    /\ pc = "sleep"
    /\ clock' = clock + SLEEP_SECS
    /\ trace' = Append(trace, [ev |-> "sleep", secs |-> SLEEP_SECS, t |-> clock])
    /\ pc' = "sendto"
    /\ UNCHANGED <<dumpVars, exc, sock, portInUse, rcvbuf, open, data, addr, e,
                   arrived, iter>>

\* try: sock.sendto(data, addr), which returns: back to the top of the loop
Sendto ==
    /\ pc = "sendto"
    /\ SendPossible(data, addr)
    /\ trace' = Append(trace, [ev |-> "sendto", data |-> data, addr |-> addr,
                               dest_open |-> addr \in open, ok |-> TRUE,
                               err |-> "", t |-> clock])
    /\ iter' = iter + 1
    /\ pc' = "recvfrom"
    /\ UNCHANGED <<dumpVars, exc, sock, portInUse, rcvbuf, open, data, addr, e, clock,
                   arrived>>

\* Variant of SendtoRaise: no try around the send, the error ends the process
SendtoRaise_uncaught ==
    /\ pc = "sendto"
    /\ \E err \in SendErrors(data, addr) :
          /\ exc' = err
          /\ trace' = Append(trace, [ev |-> "sendto", data |-> data, addr |-> addr,
                                     dest_open |-> addr \in open, ok |-> FALSE,
                                     err |-> err, t |-> clock])
    /\ pc' = "exit"
    /\ UNCHANGED <<dumpVars, sock, portInUse, rcvbuf, open, data, addr, e, clock,
                   arrived, iter>>

\* Variant of SendtoRaise: "except Exception: pass", nothing is printed
SendtoRaise_silent ==
    /\ pc = "sendto"
    /\ \E err \in SendErrors(data, addr) :
          /\ e' = err
          /\ trace' = Append(trace, [ev |-> "sendto", data |-> data, addr |-> addr,
                                     dest_open |-> addr \in open, ok |-> FALSE,
                                     err |-> err, t |-> clock])
    /\ iter' = iter + 1
    /\ pc' = "recvfrom"
    /\ UNCHANGED <<dumpVars, exc, sock, portInUse, rcvbuf, open, data, addr, clock,
                   arrived>>

\* try: sock.sendto(data, addr), which raises: except Exception as e
SendtoRaise ==
    /\ pc = "sendto"
    /\ \E err \in SendErrors(data, addr) :
          /\ e' = err
          /\ trace' = Append(trace, [ev |-> "sendto", data |-> data, addr |-> addr,
                                     dest_open |-> addr \in open, ok |-> FALSE,
                                     err |-> err, t |-> clock])
    /\ pc' = "except"
    /\ UNCHANGED <<dumpVars, exc, sock, portInUse, rcvbuf, open, data, addr, clock,
                   arrived, iter>>

\* Variant of PrintFailed: after the line the send is tried again
PrintFailed_retry ==
    /\ pc = "except"
    /\ trace' = Append(trace, [ev |-> "print", line |-> "echo failed", with |-> e,
                               t |-> clock])
    /\ pc' = "sendto"
    /\ UNCHANGED <<dumpVars, exc, sock, portInUse, rcvbuf, open, data, addr, e, clock,
                   arrived, iter>>

\* print(f"echo failed with {e}"), then back to the top of the loop
PrintFailed ==
    /\ pc = "except"
    /\ trace' = Append(trace, [ev |-> "print", line |-> "echo failed", with |-> e,
                               t |-> clock])
    /\ iter' = iter + 1
    /\ pc' = "recvfrom"
    /\ UNCHANGED <<dumpVars, exc, sock, portInUse, rcvbuf, open, data, addr, e, clock,
                   arrived>>

----------------------------------------------------------------------------
(* The environment *)

\* sender s transmits payload p to (UDP_IP, UDP_PORT) and the OS queues it
\* for the socket the running process has bound there.  A datagram the OS
\* drops (no socket bound, queue full) never reaches the program: it is as
\* if it had not been sent.
Arrive(s, p) ==
    /\ sock = "bound"
    /\ pc # "exit"
    /\ s \in open
    /\ Len(arrived) < MaxArrivals
    /\ rcvbuf' = Append(rcvbuf, [data |-> p, addr |-> s])
    /\ arrived' = Append(arrived, [data |-> p, addr |-> s, t |-> clock])
    /\ UNCHANGED <<dumpVars, pc, exc, sock, portInUse, open, data, addr, e, clock, trace, iter>>

\* sender s closes its socket.  Only a sender the program has heard of
\* matters, and the run is followed until the process ends.
Close(s) ==
    /\ pc # "exit"
    /\ s \in open
    /\ \E k \in 1..Len(arrived) : arrived[k].addr = s
    /\ open' = open \ {s}
    /\ UNCHANGED <<dumpVars, pc, exc, sock, portInUse, rcvbuf, data, addr, e, clock, trace,
                   arrived, iter>>

----------------------------------------------------------------------------

Next ==
    \/ Socket
    \/ SocketRaise
    \/ Bind
    \/ BindRaise
    \/ Recvfrom
    \/ RecvfromRaise
    \/ PrintReceived
    \/ PrintEchoing
    \/ Sleep
    \/ Sendto
    \/ SendtoRaise
    \/ PrintFailed
    \/ \E s \in Senders, p \in Payloads : Arrive(s, p)
    \/ \E s \in Senders : Close(s)

Spec == Init /\ [][Next]_vars

----------------------------------------------------------------------------
(* bytes_dump on its own: every input of the bounded set, one call each *)

\* byte values at the edges of a hex digit
DumpBytes == {0, 9, 10, 15, 16, 127, 255}

RECURSIVE Strings(_, _)
\* the byte strings of exactly k runs drawn from runs, adjacent bytes different
Strings(runs, k) ==
    IF k = 0 THEN {<<>>}
    ELSE UNION {{<<r>> \o s : s \in {x \in Strings(runs, k - 1) :
                                         x = <<>> \/ x[1].b # r.b}} : r \in runs}

DumpInputs ==
    {<<>>}
    \cup {<<Run(b, n)>> : b \in Byte, n \in 1..2}
    \cup UNION {Strings({Run(b, n) : b \in DumpBytes, n \in 1..2}, k) : k \in 2..MaxDumpRuns}

InitDump ==
    /\ InitLoop
    /\ idata \in DumpInputs
    /\ res = <<>>
    /\ dpc = "call"

\* res = bytes_dump(idata)
DumpCall ==
    /\ dpc = "call"
    /\ res' = bytes_dump(idata)
    /\ dpc' = "returned"
    /\ UNCHANGED <<loopVars, idata>>

NextDump == DumpCall

SpecDump == InitDump /\ [][NextDump]_vars

----------------------------------------------------------------------------
(* Reading the history *)

IsRecv(x) == x.ev = "recvfrom"
IsSend(x) == x.ev = "sendto"
IsRaise(x) == x.ev = "raise"
IsSleep(x) == x.ev = "sleep"
IsReceivedLine(x) == x.ev = "print" /\ x.line = "received message"
IsEchoingLine(x) == x.ev = "print" /\ x.line = "echoing"
IsFailedLine(x) == x.ev = "print" /\ x.line = "echo failed"

\* the receives and the send attempts, in order
Recvs == SelectSeq(trace, IsRecv)
Sends == SelectSeq(trace, IsSend)

N == Len(trace)

RECURSIVE IsPrefix(_, _)
\* byte string a is a prefix of byte string b
IsPrefix(a, b) ==
    \/ a = <<>>
    \/ /\ b # <<>>
       /\ a[1].b = b[1].b
       /\ \/ a[1].n = b[1].n /\ IsPrefix(Tail(a), Tail(b))
          \/ a[1].n < b[1].n /\ Len(a) = 1

----------------------------------------------------------------------------
(* C1 *)

----------------------------------------------------------------------------
(* C2 *)

\* C2: the k-th receive returns the k-th datagram that arrived, with that
\* datagram's sender; the k-th send attempt goes to that same sender; and a
\* receive other than the first comes only when the previous datagram's
\* cycle (receive, log, announce, 1-second sleep, send attempt) is complete.
C2_OwnSenderInArrivalOrder ==
    /\ LET R == Recvs
           S == Sends
       IN /\ Len(S) <= Len(R)
          /\ Len(R) <= Len(arrived)
          /\ \A k \in 1..Len(R) :
                /\ R[k].dgram = arrived[k].data
                /\ R[k].addr = arrived[k].addr
          /\ \A k \in 1..Len(S) : S[k].addr = arrived[k].addr
    /\ \A i \in 2..N :
          IsRecv(trace[i]) =>
              \E j \in {i - 2, i - 1} :
                  /\ j >= 5
                  /\ IsSend(trace[j])
                  /\ IsSleep(trace[j - 1])
                  /\ IsEchoingLine(trace[j - 2])
                  /\ IsReceivedLine(trace[j - 3])
                  /\ IsRecv(trace[j - 4])
                  /\ trace[i].t >= trace[j - 4].t + 1
                  /\ \A m \in (j + 1)..(i - 1) : ~IsRecv(trace[m])

\* two datagrams from different senders arrived before the first one's delay
\* had passed, and each has been sent back to its own sender
C2_Witness ==
    /\ N = 10
    /\ Len(arrived) = 2
    /\ arrived[1].t = 0
    /\ arrived[2].t = 0
    /\ arrived[1].addr # arrived[2].addr
    /\ Sends[1].ok /\ Sends[1].addr = arrived[1].addr
    /\ Sends[2].ok /\ Sends[2].addr = arrived[2].addr

----------------------------------------------------------------------------
(* C3 *)

----------------------------------------------------------------------------
(* C4 *)

\* C4: with the address already held the socket is never bound; a process
\* ended by a startup error has never been in the loop: it has received,
\* logged and sent nothing; and the loop runs only on a bound socket.
C4_StartupFailureFatal ==
    /\ portInUse => sock # "bound"
    /\ pc \notin {"socket", "bind", "exit"} => sock = "bound"
    /\ sock # "bound" => /\ trace = <<>>
                         /\ arrived = <<>>
                         /\ iter = 0
                         /\ data = Unset
    /\ exc \in StartupErrors => pc = "exit" /\ sock # "bound"
    /\ pc = "exit" => exc # ""

\* a second instance has ended with the bind error
C4_Witness == portInUse /\ pc = "exit" /\ exc = EADDRINUSE /\ sock = "created"

----------------------------------------------------------------------------
(* C5, under SpecDump *)

UpperHexDigit ==
    [d \in 0..15 |->
        CASE d = 0 -> "0" [] d = 1 -> "1" [] d = 2 -> "2" [] d = 3 -> "3"
          [] d = 4 -> "4" [] d = 5 -> "5" [] d = 6 -> "6" [] d = 7 -> "7"
          [] d = 8 -> "8" [] d = 9 -> "9" [] d = 10 -> "A" [] d = 11 -> "B"
          [] d = 12 -> "C" [] d = 13 -> "D" [] d = 14 -> "E" [] d = 15 -> "F"]

\* C5: the list bytes_dump returns has one token per input byte, in input
\* order; the token of byte b is two characters, the upper-case hex digit of
\* b \div 16 and then that of b % 16 (0 -> "00", 10 -> "0A", 255 -> "FF");
\* the empty input gives the empty list.
C5_BytesDumpPerByte ==
    dpc = "returned" =>
        /\ BLen(res) = BLen(idata)
        /\ \A i \in 1..BLen(idata) :
              /\ Len(At(res, i)) = 2
              /\ At(res, i) = UpperHexDigit[At(idata, i) \div 16]
                                \o UpperHexDigit[At(idata, i) % 16]
        /\ idata = <<>> => res = <<>>
        /\ idata = <<Run(0, 1)>> => res = <<Run("00", 1)>>
        /\ idata = <<Run(10, 1)>> => res = <<Run("0A", 1)>>
        /\ idata = <<Run(255, 1)>> => res = <<Run("FF", 1)>>

\* the dump of the three bytes 10, 10, 255 has been returned
C5_Witness ==
    /\ dpc = "returned"
    /\ idata = <<Run(10, 2), Run(255, 1)>>
    /\ res = <<Run("0A", 2), Run("FF", 1)>>

----------------------------------------------------------------------------
(* C6 *)

\* C6: a zero-length datagram is received like any other: data is empty, the
\* log record gives length 0 and an empty hex dump, then come the announce
\* line, the 1-second sleep and a send attempt of 0 bytes to its sender, and
\* the process goes on to the next receive call.
C6_ZeroLengthIsNormal ==
    \A i \in 1..N :
        IsRecv(trace[i]) /\ BLen(trace[i].dgram) = 0 =>
            /\ trace[i].data = <<>>
            /\ i = N => pc = "print_received"
            /\ i + 1 <= N => /\ IsReceivedLine(trace[i + 1])
                             /\ trace[i + 1].raw = <<>>
                             /\ trace[i + 1].from = trace[i].addr
                             /\ trace[i + 1].len = 0
                             /\ trace[i + 1].hex = <<>>
            /\ i + 2 <= N => /\ IsEchoingLine(trace[i + 2])
                             /\ trace[i + 2].to = trace[i].addr
            /\ i + 3 <= N => IsSleep(trace[i + 3]) /\ trace[i + 3].secs = 1
            /\ i + 4 <= N => /\ IsSend(trace[i + 4])
                             /\ trace[i + 4].data = <<>>
                             /\ trace[i + 4].addr = trace[i].addr
            /\ i + 4 = N => pc = IF trace[N].ok THEN "recvfrom" ELSE "except"
            /\ i + 5 <= N /\ trace[i + 4].ok =>
                   IsRecv(trace[i + 5]) \/ IsRaise(trace[i + 5])

\* a zero-length datagram has been sent back and the next datagram received
C6_Witness ==
    \E i \in 1..N :
        /\ IsRecv(trace[i])
        /\ BLen(trace[i].dgram) = 0
        /\ i + 5 <= N
        /\ trace[i + 1].len = 0
        /\ trace[i + 4].ok
        /\ IsRecv(trace[i + 5])

----------------------------------------------------------------------------
(* C7 *)

\* what may come directly after event a
Follows(a, b) ==
    CASE IsRecv(a) ->
            /\ IsReceivedLine(b)
            /\ b.raw = a.data
            /\ b.from = a.addr
            /\ b.len = BLen(a.data)
            /\ b.hex = bytes_dump(a.data)
            /\ BLen(b.hex) = BLen(a.data)
      [] IsReceivedLine(a) -> IsEchoingLine(b) /\ b.to = a.from
      [] IsEchoingLine(a) -> IsSleep(b) /\ b.secs = 1
      [] IsSleep(a) -> IsSend(b)
      [] IsSend(a) /\ a.ok -> IsRecv(b) \/ IsRaise(b)
      [] IsSend(a) /\ ~a.ok -> IsFailedLine(b) /\ b.with = a.err
      [] IsFailedLine(a) -> IsRecv(b) \/ IsRaise(b)
      [] IsRaise(a) -> FALSE

\* the statement that runs after the last event a
PcAfter(a) ==
    CASE IsRecv(a) -> "print_received"
      [] IsReceivedLine(a) -> "print_echoing"
      [] IsEchoingLine(a) -> "sleep"
      [] IsSleep(a) -> "sendto"
      [] IsSend(a) /\ a.ok -> "recvfrom"
      [] IsSend(a) /\ ~a.ok -> "except"
      [] IsFailedLine(a) -> "recvfrom"
      [] IsRaise(a) -> "exit"

\* C7: the events of an iteration come in the order receive, log record of
\* that datagram, destination line, 1-second sleep, send attempt; the "echo
\* failed" line comes directly after a send attempt that failed and nowhere
\* else; the destination line precedes the sleep and the send in its
\* iteration whether or not that send fails.
C7_EventOrder ==
    /\ N >= 1 => (IsRecv(trace[1]) \/ IsRaise(trace[1])) /\ pc = PcAfter(trace[N])
    /\ \A i \in 1..(N - 1) : Follows(trace[i], trace[i + 1])
    /\ \A i \in 1..N :
          /\ IsFailedLine(trace[i]) => i >= 6 /\ IsSend(trace[i - 1]) /\ ~trace[i - 1].ok
          /\ IsSend(trace[i]) =>
                /\ i >= 5
                /\ IsEchoingLine(trace[i - 2])
                /\ trace[i - 2].to = trace[i].addr
                /\ trace[i - 2].t < trace[i].t

\* an iteration whose send failed and one whose send went through are complete
C7_Witness ==
    /\ \E i \in 1..N : IsFailedLine(trace[i]) /\ IsEchoingLine(trace[i - 3])
    /\ \E i \in 1..N : IsSend(trace[i]) /\ trace[i].ok /\ pc = "recvfrom"

----------------------------------------------------------------------------
(* C8 *)

\* C8: an error raised by the receive call ends the process: it is the last
\* event of the run, it comes where a receive would (first, or directly
\* after an iteration's last event), so that iteration has no log record and
\* no send attempt, and every datagram received before it had its iteration
\* completed.
C8_RecvErrorFatal ==
    /\ \A i \in 1..N :
          IsRaise(trace[i]) =>
              /\ i = N
              /\ pc = "exit"
              /\ exc = trace[i].exc
              /\ exc \in RecvErrors
              /\ i > 1 => \/ IsSend(trace[i - 1]) /\ trace[i - 1].ok
                          \/ IsFailedLine(trace[i - 1])
              /\ Len(Recvs) = iter
              /\ Len(Sends) = iter
    /\ exc \in RecvErrors => N >= 1 /\ IsRaise(trace[N])

\* the receive call failed after one iteration, with a datagram still queued
C8_Witness ==
    /\ pc = "exit"
    /\ exc \in RecvErrors
    /\ iter = 1
    /\ rcvbuf # <<>>

----------------------------------------------------------------------------
(* C9 *)

\* C9: the send attempts are as many as the completed iterations (one more
\* while the "echo failed" line of the current one is still to come), never
\* more than the receives and at most one behind; the k-th send attempt is
\* for the k-th received datagram; a datagram is never put back on the queue.
C9_OneSendPerDatagram ==
    LET R == Recvs
        S == Sends
    IN /\ Len(S) = iter + (IF pc = "except" THEN 1 ELSE 0)
       /\ Len(S) <= Len(R)
       /\ Len(R) <= Len(S) + 1
       /\ Len(R) + Len(rcvbuf) = Len(arrived)
       /\ \A k \in 1..Len(S) :
             /\ S[k].data = R[k].data
             /\ S[k].addr = R[k].addr

\* the first send failed and the second datagram has had its own send attempt
C9_Witness ==
    /\ Len(Sends) = 2
    /\ ~Sends[1].ok
    /\ iter = 2
    /\ rcvbuf = <<>>

----------------------------------------------------------------------------
(* C10 *)

====
